---- MODULE Spec2Model ----
(***************************************************************************)
(* Model of the starttls-backend checker package:                          *)
(*   - CheckCSV, the bounded worker pool over a streamed CSV input         *)
(*     (checker/totals.go): specifications Spec, FairSpec, ConfigSpec;     *)
(*   - the Result tree and its severity order: specification ResultSpec.   *)
(* Go slices and csv records are 0-indexed, TLA+ sequences 1-indexed:      *)
(* data[domainColumn] is row[domainColumn + 1].                            *)
(***************************************************************************)
EXTENDS Bags, FiniteSets, Integers, Sequences, TLC

(***************************************************************************)
(* Bounds of the model.                                                    *)
(***************************************************************************)
MaxRows == 2
MaxNodes == 3
MaxReports == 2
\* The same two bounds where subcheckSucceeded is called between the steps.
MaxQueryNodes == 2
MaxQueryReports == 1
\* HandleDomain calls made on one AggregatedScan.
MaxCalls == 3

\* The csv records of the input: no field, one field, two fields.
RowSet == { <<>>, <<"a">>, <<"b">>, <<"a", "b">>, <<"b", "a">> }
\* The values of the domainColumn argument.
Columns == {0, 1}

\* The names of checks and the format strings of their messages.
Names == {"x", "y"}
Formats == {"m"}

\* Values of the CONNECTION_POOL_SIZE environment variable, as strings of
\* characters. Spec runs the pipeline with the variable absent (os.Getenv
\* gives "") and with two small pools; FairSpec runs it with three small
\* pools; ConfigSpec runs it on a short input under every string of at
\* most two of the characters of Chars.
Settings == { <<>>, <<"1">>, <<"2">> }
FairSettings == { <<"1">>, <<"2">>, <<"+", "3">> }
Chars == {"-", "+", "0", "1", "2", "x"}

VARIABLES
  \* ---- CheckCSV ----
  setting,       \* os.Getenv("CONNECTION_POOL_SIZE")
  rows,          \* the records domains.Read() will return, in order
  ending,        \* what Read() returns after them: "EOF" or "ERR"
  domainColumn,  \* the domainColumn argument
  pos,           \* number of records read so far
  poolSize,      \* the local poolSize (0 before it is computed)
  mainPc,        \* "start", "range", "handle", "handling", "returned"
                 \* ("off" when CheckCSV is not run)
  mainRes,       \* the r of the consumer loop
  prodPc,        \* "idle", "read", "send", "done"
  prodItem,      \* the value the producer is sending on work
  workClosed,    \* close(work) has happened
  workers,       \* bag of worker goroutine states <<pc, value>>
  supPc,         \* "idle", "loop", "finished"
  supI,          \* the supervisor's loop counter i
  resultsCloses, \* number of close(results) executed
  exit,          \* "running", "fatal" (log.Fatal), "panicIndex", "panicSend"
  readErr,       \* history: Read() has returned an error other than io.EOF
  taken,         \* history: identifiers received from work, in order
  handled,       \* history: results HandleDomain was completed with
  inHandle,      \* bag of the goroutine kinds now inside HandleDomain
  \* ---- Result tree ----
  heap,          \* sequence of Result objects; a *Result is an index
  hist,          \* history per Result: the levels reported on it in order,
                 \* the statuses attached to it, the parent it was given
  \* ---- AggregatedScan ----
  agg,           \* the AggregatedScan object
  fed,           \* history: the results HandleDomain was called with
  \* ---- calls of functions that return a value ----
  call           \* the last such call: its function, arguments and value

pipeVars ==
  << setting, rows, ending, domainColumn, pos, poolSize, mainPc, mainRes,
     prodPc, prodItem, workClosed, workers, supPc, supI, resultsCloses,
     exit, readErr, taken, handled, inHandle >>
resVars == << heap, hist >>
aggVars == << agg, fed >>
\* What CheckCSV leaves alone.
offPipe == << resVars, aggVars, call >>
vars == << pipeVars, resVars, aggVars, call >>

Nil == "nil"

(***************************************************************************)
(* Helpers.                                                                *)
(***************************************************************************)
RECURSIVE SeqsUpTo(_, _)
SeqsUpTo(S, n) ==
  IF n = 0 THEN { <<>> }
  ELSE LET shorter == SeqsUpTo(S, n - 1)
       IN shorter \cup { Append(s, x) : s \in shorter, x \in S }

Inputs == SeqsUpTo(RowSet, MaxRows)
ConfigSettings == { <<>> } \cup Chars \X Chars \cup { <<c>> : c \in Chars }
ConfigInputs == { <<>>, << <<"a">> >> }

SeqToBag(s) ==
  LET Count(x) == Cardinality({ i \in 1..Len(s) : s[i] = x })
  IN [ x \in { s[i] : i \in 1..Len(s) } |-> Count(x) ]

One(x) == SetToBag({x})
\* The bag of n copies of x.
Copies(x, n) == IF n > 0 THEN [ s \in {x} |-> n ] ELSE EmptyBag
Move(b, from, to) == (b (-) One(from)) (+) One(to)

(***************************************************************************)
(* strconv.Atoi on the setting, and the pool size derived from it.         *)
(***************************************************************************)
Digits == {"0", "1", "2", "3", "4", "5", "6", "7", "8", "9"}
DigitVal ==
  [ c \in Digits |->
      CASE c = "0" -> 0 [] c = "1" -> 1 [] c = "2" -> 2 [] c = "3" -> 3
        [] c = "4" -> 4 [] c = "5" -> 5 [] c = "6" -> 6 [] c = "7" -> 7
        [] c = "8" -> 8 [] c = "9" -> 9 ]

RECURSIVE DecVal(_)
DecVal(b) ==
  IF b = <<>> THEN 0
  ELSE 10 * DecVal(SubSeq(b, 1, Len(b) - 1)) + DigitVal[b[Len(b)]]

\* strconv.Atoi: optional sign, then one or more decimal digits. The
\* settings are short, so the range error of Atoi cannot occur.
Atoi(s) ==
  LET signed == s # <<>> /\ s[1] \in {"+", "-"}
      body == IF signed THEN Tail(s) ELSE s
  IN IF body = <<>> \/ \E i \in 1..Len(body) : body[i] \notin Digits
       THEN [val |-> 0, err |-> "syntax"]
       ELSE [val |-> IF signed /\ s[1] = "-" THEN 0 - DecVal(body)
                     ELSE DecVal(body),
             err |-> Nil]

defaultPoolSize == 16

\* Lines 84-87. (EffectivePoolSizeNoZero: the test is poolSize < 0.)
EffectivePoolSizeNoZero(s) ==
  LET r == Atoi(s)
  IN IF r.err # Nil \/ r.val < 0 THEN defaultPoolSize ELSE r.val

EffectivePoolSize(s) ==
  LET r == Atoi(s)
  IN IF r.err # Nil \/ r.val <= 0 THEN defaultPoolSize ELSE r.val

(***************************************************************************)
(* The external check: the DomainResult of a domain carries that domain.   *)
(***************************************************************************)
CheckDomain(d) == [Domain |-> d]

\* data[domainColumn] of a record long enough to have it.
\* (IdentifierFirst: the first column whatever domainColumn says.)
IdentifierFirst(data, col) == data[1]
Identifier(data, col) == data[col + 1]

(***************************************************************************)
(* Worker goroutine states.                                                *)
(***************************************************************************)
WRange == <<"range", Nil>>
WSignal == <<"signal", Nil>>
WExited == <<"exited", Nil>>
WCheck(d) == <<"check", d>>
WHung(d) == <<"hung", d>>
WSend(r) == <<"send", r>>

WorkersAt(pc) == { s \in BagToSet(workers) : s[1] = pc }
CountAt(pc) ==
  LET S == WorkersAt(pc)
  IN BagCardinality([ s \in S |-> workers[s] ])
NumWorkers == BagCardinality(workers)
ResultsClosed == resultsCloses > 0

(***************************************************************************)
(* Initial states.                                                         *)
(***************************************************************************)
PipeIdle ==
  /\ setting = <<>> /\ rows = <<>> /\ ending = "EOF" /\ domainColumn = 0
  /\ pos = 0 /\ poolSize = 0 /\ mainPc = "off" /\ mainRes = Nil
  /\ prodPc = "idle" /\ prodItem = Nil /\ workClosed = FALSE
  /\ workers = EmptyBag /\ supPc = "idle" /\ supI = 0
  /\ resultsCloses = 0 /\ exit = "running" /\ readErr = FALSE
  /\ taken = <<>>
  /\ handled = <<>> /\ inHandle = EmptyBag

ResIdle == heap = <<>> /\ hist = <<>>
AggIdle == agg = Nil /\ fed = <<>>
NoCall == call = [fn |-> "none"]

PipeInit(settings, inputs) ==
  /\ setting \in settings
  /\ rows \in inputs
  /\ ending \in {"EOF", "ERR"}
  /\ domainColumn \in Columns
  /\ pos = 0 /\ poolSize = 0 /\ mainPc = "start" /\ mainRes = Nil
  /\ prodPc = "idle" /\ prodItem = Nil /\ workClosed = FALSE
  /\ workers = EmptyBag /\ supPc = "idle" /\ supI = 0
  /\ resultsCloses = 0 /\ exit = "running" /\ readErr = FALSE
  /\ taken = <<>>
  /\ handled = <<>> /\ inHandle = EmptyBag
  /\ ResIdle /\ AggIdle /\ NoCall

Init == PipeInit(Settings, Inputs)
FairInit == PipeInit(FairSettings, Inputs)
ConfigInit == PipeInit(ConfigSettings, ConfigInputs)

(***************************************************************************)
(* CheckCSV.                                                               *)
(***************************************************************************)
\* Lines 84-124: compute poolSize, make the channels, start the producer,
\* poolSize workers and the supervisor; the caller then enters its loop.
Start ==
  /\ exit = "running" /\ mainPc = "start"
  /\ poolSize' = EffectivePoolSize(setting)
  /\ workers' = Copies(WRange, poolSize')
  /\ prodPc' = "read" /\ supPc' = "loop" /\ mainPc' = "range"
  /\ UNCHANGED << setting, rows, ending, domainColumn, pos, mainRes,
                  prodItem, workClosed, supI, resultsCloses, exit, taken,
                  handled, inHandle, readErr, offPipe >>

\* (ProducerReadErrContinue: the error is logged without log.Fatal, the
\* loop is left and work is closed as at the end of the input.)
ProducerReadErrContinue ==
  /\ exit = "running" /\ prodPc = "read" /\ pos = Len(rows)
  /\ readErr' = (ending # "EOF")
  /\ workClosed' = TRUE /\ prodPc' = "done"
  /\ UNCHANGED << setting, rows, ending, domainColumn, pos, poolSize,
                  mainPc, mainRes, prodItem, workers, supPc, supI,
                  resultsCloses, exit, taken, handled, inHandle, offPipe >>

\* Lines 93-100, 105: Read() returns an error. io.EOF leaves the loop and
\* closes work; any other error ends the process in log.Fatal.
ProducerReadErr ==
  /\ exit = "running" /\ prodPc = "read" /\ pos = Len(rows)
  /\ IF ending = "EOF"
       THEN /\ workClosed' = TRUE /\ prodPc' = "done"
            /\ UNCHANGED << exit, readErr >>
       ELSE /\ readErr' = TRUE /\ exit' = "fatal"
            /\ UNCHANGED << workClosed, prodPc >>
  /\ UNCHANGED << setting, rows, ending, domainColumn, pos, poolSize,
                  mainPc, mainRes, prodItem, workers, supPc, supI,
                  resultsCloses, taken, handled, inHandle, offPipe >>

\* (ProducerReadRowReversed: the records are taken from the last to the
\* first.)
ProducerReadRowReversed ==
  /\ exit = "running" /\ prodPc = "read" /\ pos < Len(rows)
  /\ pos' = pos + 1
  /\ LET data == rows[Len(rows) - pos]
     IN IF Len(data) > 0
          THEN IF domainColumn < Len(data)
                 THEN /\ prodItem' = Identifier(data, domainColumn)
                      /\ prodPc' = "send" /\ exit' = exit
                 ELSE /\ exit' = "panicIndex"
                      /\ UNCHANGED << prodItem, prodPc >>
          ELSE UNCHANGED << prodItem, prodPc, exit >>
  /\ UNCHANGED << setting, rows, ending, domainColumn, poolSize, mainPc,
                  mainRes, workClosed, workers, supPc, supI,
                  resultsCloses, taken, handled, inHandle, readErr, offPipe >>
\* Lines 93, 101-103: Read() returns a record. An empty record is passed
\* over; otherwise data[domainColumn] is evaluated, which panics with an
\* index out of range when the record is too short, and the producer goes
\* on to send it.
ProducerReadRow ==
  /\ exit = "running" /\ prodPc = "read" /\ pos < Len(rows)
  /\ pos' = pos + 1
  /\ LET data == rows[pos + 1]
     IN IF Len(data) > 0
          THEN IF domainColumn < Len(data)
                 THEN /\ prodItem' = Identifier(data, domainColumn)
                      /\ prodPc' = "send" /\ exit' = exit
                 ELSE /\ exit' = "panicIndex"
                      /\ UNCHANGED << prodItem, prodPc >>
          ELSE UNCHANGED << prodItem, prodPc, exit >>
  /\ UNCHANGED << setting, rows, ending, domainColumn, poolSize, mainPc,
                  mainRes, workClosed, workers, supPc, supI,
                  resultsCloses, taken, handled, inHandle, readErr, offPipe >>

\* (WorkerReceiveSerial: a worker takes work only while no other worker
\* is inside CheckDomain, as if the check were under one lock.)
WorkerReceiveSerial ==
  /\ exit = "running" /\ prodPc = "send" /\ ~workClosed
  /\ BagIn(WRange, workers)
  /\ CountAt("check") + CountAt("hung") = 0
  /\ workers' = Move(workers, WRange, WCheck(prodItem))
  /\ taken' = Append(taken, prodItem)
  /\ prodPc' = "read" /\ prodItem' = Nil
  /\ UNCHANGED << setting, rows, ending, domainColumn, pos, poolSize,
                  mainPc, mainRes, workClosed, supPc, supI, resultsCloses,
                  exit, handled, inHandle, readErr, offPipe >>

\* (WorkerReceiveSpawns: the worker starts the check in a goroutine of
\* its own and goes back to receive.)
WorkerReceiveSpawns ==
  /\ exit = "running" /\ prodPc = "send" /\ ~workClosed
  /\ BagIn(WRange, workers)
  /\ workers' = workers (+) One(WCheck(prodItem))
  /\ taken' = Append(taken, prodItem)
  /\ prodPc' = "read" /\ prodItem' = Nil
  /\ UNCHANGED << setting, rows, ending, domainColumn, pos, poolSize,
                  mainPc, mainRes, workClosed, supPc, supI, resultsCloses,
                  exit, handled, inHandle, readErr, offPipe >>
\* Lines 102 and 111: the unbuffered work channel hands the producer's
\* value to one worker waiting in its range loop.
WorkerReceive ==
  /\ exit = "running" /\ prodPc = "send" /\ ~workClosed
  /\ BagIn(WRange, workers)
  /\ workers' = Move(workers, WRange, WCheck(prodItem))
  /\ taken' = Append(taken, prodItem)
  /\ prodPc' = "read" /\ prodItem' = Nil
  /\ UNCHANGED << setting, rows, ending, domainColumn, pos, poolSize,
                  mainPc, mainRes, workClosed, supPc, supI, resultsCloses,
                  exit, handled, inHandle, readErr, offPipe >>

\* Line 111: a worker's range loop ends once work is closed (the channel
\* is unbuffered, so closed means drained).
WorkerRangeEnd ==
  /\ exit = "running" /\ workClosed
  /\ BagIn(WRange, workers)
  /\ workers' = Move(workers, WRange, WSignal)
  /\ UNCHANGED << setting, rows, ending, domainColumn, pos, poolSize,
                  mainPc, mainRes, prodPc, prodItem, workClosed, supPc,
                  supI, resultsCloses, exit, taken, handled, inHandle,
                  readErr, offPipe >>

\* Line 112: c.CheckDomain(domain, nil) returns.
CheckReturn(s) ==
  /\ exit = "running" /\ s[1] = "check"
  /\ workers' = Move(workers, s, WSend(CheckDomain(s[2])))
  /\ UNCHANGED << setting, rows, ending, domainColumn, pos, poolSize,
                  mainPc, mainRes, prodPc, prodItem, workClosed, supPc,
                  supI, resultsCloses, exit, taken, handled, inHandle,
                  readErr, offPipe >>

\* Line 112: c.CheckDomain(domain, nil) never returns; the pipeline puts
\* no time limit on it.
CheckHang(s) ==
  /\ exit = "running" /\ s[1] = "check"
  /\ workers' = Move(workers, s, WHung(s[2]))
  /\ UNCHANGED << setting, rows, ending, domainColumn, pos, poolSize,
                  mainPc, mainRes, prodPc, prodItem, workClosed, supPc,
                  supI, resultsCloses, exit, taken, handled, inHandle,
                  readErr, offPipe >>

\* (WorkerHandles: the worker calls HandleDomain on its result itself
\* instead of sending it to the consumer loop.)
WorkerHandles(s) ==
  /\ exit = "running" /\ s[1] = "send"
  /\ workers' = Move(workers, s, <<"handling", s[2]>>)
  /\ inHandle' = inHandle (+) One("worker")
  /\ UNCHANGED << setting, rows, ending, domainColumn, pos, poolSize,
                  mainPc, mainRes, prodPc, prodItem, workClosed, supPc,
                  supI, resultsCloses, exit, taken, handled, readErr,
                  offPipe >>

\* Lines 112 and 126: the unbuffered results channel hands a worker's
\* result to the consumer loop. A send on a closed channel panics.
WorkerSend(s) ==
  /\ exit = "running" /\ s[1] = "send"
  /\ IF ResultsClosed
       THEN /\ exit' = "panicSend"
            /\ UNCHANGED << workers, mainPc, mainRes >>
       ELSE /\ mainPc = "range"
            /\ workers' = Move(workers, s, WRange)
            /\ mainRes' = s[2] /\ mainPc' = "handle" /\ exit' = exit
  /\ UNCHANGED << setting, rows, ending, domainColumn, pos, poolSize,
                  prodPc, prodItem, workClosed, supPc, supI,
                  resultsCloses, taken, handled, inHandle, readErr, offPipe >>

\* The number of completion signals the supervisor waits for, the bound
\* of its loop. (SupervisorTargetShort: one signal too few.)
SupervisorTargetShort == poolSize - 1
SupervisorTarget == poolSize

\* Lines 114 and 121: the unbuffered done channel hands one worker's
\* completion signal to the supervisor, whose loop counts it.
SupervisorReceive ==
  /\ exit = "running" /\ supPc = "loop" /\ supI < SupervisorTarget
  /\ BagIn(WSignal, workers)
  /\ workers' = Move(workers, WSignal, WExited)
  /\ supI' = supI + 1
  /\ UNCHANGED << setting, rows, ending, domainColumn, pos, poolSize,
                  mainPc, mainRes, prodPc, prodItem, workClosed, supPc,
                  resultsCloses, exit, taken, handled, inHandle, readErr,
                  offPipe >>

\* Lines 120, 123: the supervisor's loop is over; it closes results.
SupervisorClose ==
  /\ exit = "running" /\ supPc = "loop" /\ supI >= SupervisorTarget
  /\ resultsCloses' = resultsCloses + 1
  /\ supPc' = "finished"
  /\ UNCHANGED << setting, rows, ending, domainColumn, pos, poolSize,
                  mainPc, mainRes, prodPc, prodItem, workClosed, workers,
                  supI, exit, taken, handled, inHandle, readErr, offPipe >>

\* Line 127: the consumer loop calls resultHandler.HandleDomain(r).
HandleBegin ==
  /\ exit = "running" /\ mainPc = "handle"
  /\ inHandle' = inHandle (+) One("main")
  /\ mainPc' = "handling"
  /\ UNCHANGED << setting, rows, ending, domainColumn, pos, poolSize,
                  mainRes, prodPc, prodItem, workClosed, workers, supPc,
                  supI, resultsCloses, exit, taken, handled,
                  readErr, offPipe >>

\* Line 127: HandleDomain(r) returns; the loop goes back to receive.
HandleEnd ==
  /\ exit = "running" /\ mainPc = "handling"
  /\ inHandle' = inHandle (-) One("main")
  /\ handled' = Append(handled, mainRes)
  /\ mainRes' = Nil /\ mainPc' = "range"
  /\ UNCHANGED << setting, rows, ending, domainColumn, pos, poolSize,
                  prodPc, prodItem, workClosed, workers, supPc, supI,
                  resultsCloses, exit, taken, readErr, offPipe >>

\* Lines 126, 129: results is closed, the consumer loop ends and CheckCSV
\* returns.
MainReturn ==
  /\ exit = "running" /\ mainPc = "range" /\ ResultsClosed
  /\ mainPc' = "returned"
  /\ UNCHANGED << setting, rows, ending, domainColumn, pos, poolSize,
                  mainRes, prodPc, prodItem, workClosed, workers, supPc,
                  supI, resultsCloses, exit, taken, handled, inHandle,
                  readErr, offPipe >>

Checking == \E s \in BagToSet(workers) : CheckReturn(s)
Hanging == \E s \in BagToSet(workers) : CheckHang(s)
Sending == \E s \in BagToSet(workers) : WorkerSend(s)

Next ==
  \/ Start
  \/ ProducerReadErr
  \/ ProducerReadRow
  \/ WorkerReceive
  \/ WorkerRangeEnd
  \/ Checking
  \/ Hanging
  \/ Sending
  \/ SupervisorReceive
  \/ SupervisorClose
  \/ HandleBegin
  \/ HandleEnd
  \/ MainReturn

Spec == Init /\ [][Next]_vars

\* The Go scheduler runs a goroutine that can take a step, and a channel
\* operation with a ready partner completes: while some step other than
\* a check hanging is possible, one is taken. A run has finitely many
\* steps, so this carries every goroutine as far as it can go. A check
\* that hangs is a choice of the external check and gets no fairness.
Progress ==
  \/ Start
  \/ ProducerReadErr
  \/ ProducerReadRow
  \/ WorkerReceive
  \/ WorkerRangeEnd
  \/ Checking
  \/ Sending
  \/ SupervisorReceive
  \/ SupervisorClose
  \/ HandleBegin
  \/ HandleEnd
  \/ MainReturn
Fairness == WF_vars(Progress)

FairSpec == FairInit /\ [][Next]_vars /\ Fairness

ConfigSpec == ConfigInit /\ [][Next]_vars

(***************************************************************************)
(* The Result tree. A *Result is an index into heap; Checks is the Go map  *)
(* from a check's name to the *Result stored under it.                     *)
(***************************************************************************)
Success == 0
Warning == 1
Failure == 2
Error == 3

\* (SetStatusSticky: the first status other than Success is kept.)
SetStatusSticky(oldStatus, newStatus) ==
  IF oldStatus = Success THEN newStatus ELSE oldStatus
\* (SetStatusLatest: the new status always replaces the old one.)
SetStatusLatest(oldStatus, newStatus) == newStatus
\* Lines 33-38.
SetStatus(oldStatus, newStatus) ==
  IF newStatus > oldStatus THEN newStatus ELSE oldStatus

NoChecks == [ k \in {} |-> 0 ]
Children(r) == { heap[r].Checks[k] : k \in DOMAIN heap[r].Checks }

\* The number of Error, Failure, Warning and Success calls made so far
\* on the first n Results.
RECURSIVE CountReports(_)
CountReports(n) ==
  IF n = 0 THEN 0 ELSE Len(hist[n].reported) + CountReports(n - 1)

ResInit == PipeIdle /\ heap = <<>> /\ hist = <<>> /\ AggIdle /\ NoCall

\* Lines 52-59.
MakeResult(name) ==
  /\ Len(heap) < MaxNodes
  /\ heap' = Append(heap, [Name |-> name, Status |-> Success,
                           Messages |-> <<>>, Checks |-> NoChecks])
  /\ hist' = Append(hist,
                    [reported |-> <<>>, attached |-> {}, parent |-> 0])
  /\ UNCHANGED << pipeVars, aggVars, call >>

\* (ReportPrepend: the message is put in front of the others.)
ReportPrepend(r, level, prefix, format) ==
  /\ r \in 1..Len(heap)
  /\ CountReports(Len(heap)) < MaxReports
  /\ heap' = [heap EXCEPT
       ![r].Status = SetStatus(heap[r].Status, level),
       ![r].Messages = << <<prefix, format>> >> \o heap[r].Messages]
  /\ hist' = [hist EXCEPT ![r].reported = Append(@, level)]
  /\ UNCHANGED << pipeVars, aggVars, call >>
\* The common body of Error, Failure and Warning: the status is combined
\* with the level and the prefixed message is appended.
Report(r, level, prefix, format) ==
  /\ r \in 1..Len(heap)
  /\ CountReports(Len(heap)) < MaxReports
  /\ heap' = [heap EXCEPT
       ![r].Status = SetStatus(heap[r].Status, level),
       ![r].Messages = Append(heap[r].Messages, <<prefix, format>>)]
  /\ hist' = [hist EXCEPT ![r].reported = Append(@, level)]
  /\ UNCHANGED << pipeVars, aggVars, call >>

\* Lines 64-68.
ResultError(r, format) == Report(r, Error, "Error: ", format)
\* Lines 73-77.
ResultFailure(r, format) == Report(r, Failure, "Failure: ", format)
\* Lines 81-85.
ResultWarning(r, format) == Report(r, Warning, "Warning: ", format)

\* (ResultSuccessResets: Success assigns the status Success.)
ResultSuccessResets(r) ==
  /\ r \in 1..Len(heap)
  /\ CountReports(Len(heap)) < MaxReports
  /\ heap' = [heap EXCEPT ![r].Status = Success]
  /\ hist' = [hist EXCEPT ![r].reported = Append(@, Success)]
  /\ UNCHANGED << pipeVars, aggVars, call >>
\* Lines 89-92: Success combines the status with Success and appends no
\* message.
ResultSuccess(r) ==
  /\ r \in 1..Len(heap)
  /\ CountReports(Len(heap)) < MaxReports
  /\ heap' = [heap EXCEPT ![r].Status = SetStatus(heap[r].Status, Success)]
  /\ hist' = [hist EXCEPT ![r].reported = Append(@, Success)]
  /\ UNCHANGED << pipeVars, aggVars, call >>

\* Lines 104-108. A Result is attached once, to one parent, and never
\* under itself or one of its own descendants: the tree is acyclic. The
\* pointers are numbered so that a parent comes before its children (any
\* tree can be numbered so, MakeResult depending on nothing).
addCheck(r, checkResult) ==
  /\ r \in 1..Len(heap) /\ checkResult \in 1..Len(heap)
  /\ hist[checkResult].parent = 0
  /\ r < checkResult
  /\ heap' = [heap EXCEPT
       ![r].Checks = (heap[checkResult].Name :> checkResult) @@ @,
       ![r].Status = SetStatus(heap[r].Status, heap[checkResult].Status)]
  /\ hist' = [hist EXCEPT
       ![r].attached = @ \cup {heap[checkResult].Status},
       ![checkResult].parent = r]
  /\ UNCHANGED << pipeVars, aggVars, call >>

\* The names a Result is made with. Nothing tells the two names apart, so
\* the first Result made takes "x" and the later ones either name, the
\* same as the first or the other.
NamesNow == IF heap = <<>> THEN {"x"} ELSE Names

ResNext ==
  \/ \E name \in NamesNow : MakeResult(name)
  \/ \E r \in 1..MaxNodes, format \in Formats : ResultError(r, format)
  \/ \E r \in 1..MaxNodes, format \in Formats : ResultFailure(r, format)
  \/ \E r \in 1..MaxNodes, format \in Formats : ResultWarning(r, format)
  \/ \E r \in 1..MaxNodes : ResultSuccess(r)
  \/ \E r, checkResult \in 1..MaxNodes : addCheck(r, checkResult)

ResultSpec == ResInit /\ [][ResNext]_vars

(***************************************************************************)
(* The Result tree with subcheckSucceeded called between its steps; call   *)
(* keeps the last call and the value it returned.                          *)
(***************************************************************************)
\* (subcheckSucceededAnyStatus: a child under the name is enough.)
subcheckSucceededAnyStatus(r, checkName) ==
  checkName \in DOMAIN heap[r].Checks
\* Lines 96-101.
subcheckSucceeded(r, checkName) ==
  IF checkName \in DOMAIN heap[r].Checks
    THEN heap[heap[r].Checks[checkName]].Status = Success
    ELSE FALSE

subcheckSucceededCall(r, checkName) ==
  /\ r \in 1..Len(heap)
  /\ call' = [fn |-> "subcheckSucceeded", r |-> r, checkName |-> checkName,
              value |-> subcheckSucceeded(r, checkName)]
  /\ UNCHANGED << pipeVars, resVars, aggVars >>

QueryNext ==
  \/ /\ Len(heap) < MaxQueryNodes
     /\ \E name \in Names : MakeResult(name)
  \/ /\ CountReports(Len(heap)) < MaxQueryReports
     /\ \/ \E r \in 1..MaxQueryNodes, format \in Formats :
             ResultError(r, format)
        \/ \E r \in 1..MaxQueryNodes, format \in Formats :
             ResultFailure(r, format)
        \/ \E r \in 1..MaxQueryNodes, format \in Formats :
             ResultWarning(r, format)
        \/ \E r \in 1..MaxQueryNodes : ResultSuccess(r)
  \/ \E r, checkResult \in 1..MaxQueryNodes : addCheck(r, checkResult)
  \/ \E r \in 1..MaxQueryNodes, checkName \in Names :
       subcheckSucceededCall(r, checkName)

QuerySpec == ResInit /\ [][QueryNext]_vars

(***************************************************************************)
(* AggregatedScan. Time and Source are written by no method and are left   *)
(* out; the progress log every 1000 calls changes no field.                *)
(***************************************************************************)
\* r.MTASTSResult == nil
NilResult == [nil |-> TRUE]
Modes == {"enforce", "testing", "none"}
\* The DomainResults HandleDomain is given: HostnameResults is the set of
\* the hostnames it has an entry for.
DomainResults ==
  [Domain : {"a", "b"},
   HostnameResults : { {}, {"mx"} },
   MTASTSResult : {NilResult} \cup [Mode : Modes]]

\* The zero value of the struct.
FreshScan ==
  [Attempted |-> 0, WithMXs |-> 0,
   MTASTSTesting |-> 0, MTASTSTestingList |-> <<>>,
   MTASTSEnforce |-> 0, MTASTSEnforceList |-> <<>>]

AggInit == PipeIdle /\ ResIdle /\ NoCall /\ agg = FreshScan /\ fed = <<>>

\* Lines 33-35.
TotalMTASTS(a) == a.MTASTSTesting + a.MTASTSEnforce

\* A float64 is kept as the exact quotient num / den of two integers: on
\* the counts here 100 * total is exact and the division rounds the exact
\* quotient to the nearest float64, which keeps order and keeps 0 and 100.
\* (PercentMTASTSFraction: the fraction between 0 and 1.)
PercentMTASTSFraction(a) ==
  IF a.WithMXs = 0
    THEN [num |-> 0, den |-> 1]
    ELSE [num |-> TotalMTASTS(a), den |-> a.WithMXs]
\* Lines 39-44.
PercentMTASTS(a) ==
  IF a.WithMXs = 0
    THEN [num |-> 0, den |-> 1]
    ELSE [num |-> 100 * TotalMTASTS(a), den |-> a.WithMXs]

\* (HandleDomainMislists: a testing domain is put on the enforce list.)
HandleDomainMislists(r) ==
  /\ Len(fed) < MaxCalls
  /\ fed' = Append(fed, r)
  /\ LET attempted == [agg EXCEPT !.Attempted = @ + 1]
         withMX == [attempted EXCEPT !.WithMXs = @ + 1]
     IN agg' =
          IF Cardinality(r.HostnameResults) = 0
            THEN attempted
            ELSE IF r.MTASTSResult # NilResult
              THEN CASE r.MTASTSResult.Mode = "enforce" ->
                          [withMX EXCEPT
                             !.MTASTSEnforce = @ + 1,
                             !.MTASTSEnforceList = Append(@, r.Domain)]
                     [] r.MTASTSResult.Mode = "testing" ->
                          [withMX EXCEPT
                             !.MTASTSTesting = @ + 1,
                             !.MTASTSEnforceList = Append(@, r.Domain)]
                     [] OTHER -> withMX
              ELSE withMX
  /\ UNCHANGED << pipeVars, resVars, call >>
\* (HandleDomainCountsAll: without the return on a result with no
\* hostname results.)
HandleDomainCountsAll(r) ==
  /\ Len(fed) < MaxCalls
  /\ fed' = Append(fed, r)
  /\ LET attempted == [agg EXCEPT !.Attempted = @ + 1]
         withMX == [attempted EXCEPT !.WithMXs = @ + 1]
     IN agg' =
          IF r.MTASTSResult # NilResult
            THEN CASE r.MTASTSResult.Mode = "enforce" ->
                        [withMX EXCEPT
                           !.MTASTSEnforce = @ + 1,
                           !.MTASTSEnforceList = Append(@, r.Domain)]
                   [] r.MTASTSResult.Mode = "testing" ->
                        [withMX EXCEPT
                           !.MTASTSTesting = @ + 1,
                           !.MTASTSTestingList = Append(@, r.Domain)]
                   [] OTHER -> withMX
            ELSE withMX
  /\ UNCHANGED << pipeVars, resVars, call >>
\* Lines 47-71.
HandleDomain(r) ==
  /\ Len(fed) < MaxCalls
  /\ fed' = Append(fed, r)
  /\ LET attempted == [agg EXCEPT !.Attempted = @ + 1]
         withMX == [attempted EXCEPT !.WithMXs = @ + 1]
     IN agg' =
          IF Cardinality(r.HostnameResults) = 0
            THEN attempted
            ELSE IF r.MTASTSResult # NilResult
              THEN CASE r.MTASTSResult.Mode = "enforce" ->
                          [withMX EXCEPT
                             !.MTASTSEnforce = @ + 1,
                             !.MTASTSEnforceList = Append(@, r.Domain)]
                     [] r.MTASTSResult.Mode = "testing" ->
                          [withMX EXCEPT
                             !.MTASTSTesting = @ + 1,
                             !.MTASTSTestingList = Append(@, r.Domain)]
                     [] OTHER -> withMX
              ELSE withMX
  /\ UNCHANGED << pipeVars, resVars, call >>

\* The accessors have value receivers: they work on a copy of agg.
TotalMTASTSCall ==
  /\ call' = [fn |-> "TotalMTASTS", value |-> TotalMTASTS(agg)]
  /\ UNCHANGED << pipeVars, resVars, aggVars >>

PercentMTASTSCall ==
  /\ call' = [fn |-> "PercentMTASTS", value |-> PercentMTASTS(agg)]
  /\ UNCHANGED << pipeVars, resVars, aggVars >>

AggNext ==
  \/ \E r \in DomainResults : HandleDomain(r)
  \/ TotalMTASTSCall
  \/ PercentMTASTSCall

AggSpec == AggInit /\ [][AggNext]_vars

(***************************************************************************)
(* SetStatus as a function: it is called on every triple of statuses, in   *)
(* the combinations its algebra is about.                                  *)
(***************************************************************************)
Statuses == {Success, Warning, Failure, Error}

StatusInit ==
  /\ PipeIdle /\ ResIdle /\ AggIdle
  /\ \E a, b, c \in Statuses :
       call = [fn |-> "SetStatus", args |-> << a, b, c >>, done |-> FALSE]

SetStatusCall ==
  /\ call.fn = "SetStatus" /\ ~call.done
  /\ LET a == call.args[1]
         b == call.args[2]
         c == call.args[3]
     IN call' = [fn |-> "SetStatus", args |-> call.args, done |-> TRUE,
                 ab |-> SetStatus(a, b),
                 ba |-> SetStatus(b, a),
                 aa |-> SetStatus(a, a),
                 ab_c |-> SetStatus(SetStatus(a, b), c),
                 a_bc |-> SetStatus(a, SetStatus(b, c))]
  /\ UNCHANGED << pipeVars, resVars, aggVars >>

StatusSpec == StatusInit /\ [][SetStatusCall]_vars

(***************************************************************************)
(* Properties of CheckCSV.                                                 *)
(***************************************************************************)
NonEmptyRows == SelectSeq(rows, LAMBDA data : Len(data) > 0)
\* The result of checking the identifier of each non-empty row.
ExpectedResults ==
  [ i \in 1..Len(NonEmptyRows) |->
      [Domain |-> IF domainColumn < Len(NonEmptyRows[i])
                    THEN NonEmptyRows[i][domainColumn + 1] ELSE Nil] ]
Aborted == exit # "running"
AllWorkersExited == workers = Copies(WExited, poolSize)
NothingBlocked ==
  prodPc = "done" /\ AllWorkersExited /\ supPc = "finished"

\* C1: at every moment the results handed to HandleDomain are a sub-bag
\* of the results of the non-empty rows (nothing duplicated, nothing
\* invented, nothing from an empty row), and when CheckCSV has returned
\* they are exactly that bag: one call per non-empty row.
C1_EachRowHandledOnce ==
  /\ SeqToBag(handled) \sqsubseteq SeqToBag(ExpectedResults)
  /\ mainPc = "returned" => SeqToBag(handled) = SeqToBag(ExpectedResults)

C1_Witness ==
  /\ mainPc = "returned" /\ poolSize >= 2 /\ Len(handled) >= 1
  /\ Len(handled) < Len(rows) /\ domainColumn = 1

\* C2: results is closed at most once, and only when all poolSize workers
\* have left their loop and handed over their completion signal; no
\* worker sends on closed results; when the consumer loop has ended
\* results was closed once and no worker holds anything.
C2_CloseAfterAllWorkers ==
  /\ resultsCloses <= 1
  /\ ResultsClosed => AllWorkersExited /\ supI = poolSize
  /\ exit # "panicSend"
  /\ mainPc = "returned" => resultsCloses = 1 /\ AllWorkersExited

C2_Witness ==
  /\ ResultsClosed /\ mainPc = "range" /\ poolSize >= 2
  /\ Len(handled) >= 2

\* C3: when the input ends with a clean end-of-input and no check hangs,
\* CheckCSV eventually returns with the producer, every worker and the
\* supervisor finished, and with no HandleDomain call if there was no row.
C3_CleanInputTerminates ==
  (ending = "EOF") =>
    <>(\/ CountAt("hung") > 0
       \/ /\ mainPc = "returned" /\ NothingBlocked
          /\ (rows = <<>> => handled = <<>>))

\* C4: at most one HandleDomain call is in progress, and only the
\* consumer loop of CheckCSV is ever inside HandleDomain.
C4_SingleConsumer ==
  /\ BagCardinality(inHandle) <= 1
  /\ BagToSet(inHandle) \subseteq {"main"}

C4_Witness ==
  /\ inHandle = One("main") /\ poolSize >= 2
  /\ CountAt("check") + CountAt("send") >= 1

\* C5: while a check hangs CheckCSV never returns; and in a run whose
\* producer is not aborted, with a pool of at least 2 of which exactly one
\* worker hangs, the producer reaches the end of the input and every
\* identifier but the hung one is handed to HandleDomain.
OthersDelivered ==
  /\ CountAt("hung") = 1 /\ prodPc = "done"
  /\ \E s \in WorkersAt("hung") :
       SeqToBag(handled) (+) One(CheckDomain(s[2]))
         = SeqToBag(ExpectedResults)
C5_HungWorkerBlocksNoOther ==
  /\ [](CountAt("hung") >= 1 => mainPc # "returned")
  /\ <>(\/ Aborted
        \/ mainPc # "start" /\ poolSize < 2
        \/ CountAt("hung") >= 2
        \/ mainPc = "returned"
        \/ OthersDelivered)

C5_Witness ==
  /\ poolSize >= 2 /\ OthersDelivered /\ Len(handled) >= 1
  /\ \E s \in WorkersAt("hung") : s[2] = taken[1]

\* C6: a non-empty record with no column domainColumn is skipped: reading
\* it raises no failure.
C6_ShortRowSkipped ==
  \A i \in 1..pos :
    (Len(rows[i]) > 0 /\ Len(rows[i]) <= domainColumn)
      => exit # "panicIndex"

\* C7: once Read() has returned an error other than end-of-input, no
\* identifier is taken from work, no record is read, HandleDomain
\* completes for no further result and CheckCSV does not return.
C7_ReadErrorAborts ==
  /\ [](readErr => mainPc # "returned")
  /\ [][readErr' =>
          /\ taken' = taken /\ pos' = pos /\ handled' = handled
          /\ prodItem' = prodItem /\ mainPc' = mainPc]_vars

C7_Witness ==
  /\ readErr /\ Len(handled) >= 1
  /\ CountAt("check") + CountAt("send") >= 1

\* C8 as stated: after a fatal read error work is closed, every worker
\* signals completion, results is closed and the consumer loop ends.
C8_ReadErrorDrains ==
  readErr ~>
    (workClosed /\ AllWorkersExited /\ ResultsClosed
       /\ mainPc = "returned")

\* C8 amended: a fatal read error ends the process where it stands: work
\* is not closed, no worker has signalled or signals completion, results
\* is not closed and the consumer loop has not ended.
C8_ReadErrorStopsProcess ==
  readErr =>
    /\ exit = "fatal" /\ ~workClosed /\ ~ResultsClosed
    /\ CountAt("signal") + CountAt("exited") = 0 /\ supI = 0
    /\ supPc = "loop" /\ mainPc # "returned"
    /\ NumWorkers = poolSize

C8_Witness ==
  /\ readErr /\ CountAt("range") >= 1 /\ CountAt("send") >= 1
  /\ mainPc = "handling"

\* C9: the number of workers started is the value of the setting when it
\* is a decimal integer greater than 0, and 16 otherwise; it is at least
\* 1, and the supervisor closes results after that many signals.
IsDecimal(s) ==
  LET body == IF s # <<>> /\ s[1] \in {"+", "-"} THEN Tail(s) ELSE s
  IN body # <<>> /\ \A i \in 1..Len(body) : body[i] \in Digits
ConfiguredSize(s) ==
  IF IsDecimal(s) /\ s[1] # "-"
    THEN DecVal(IF s[1] = "+" THEN Tail(s) ELSE s)
    ELSE 0
C9_PoolSize ==
  mainPc # "start" =>
    /\ IF ConfiguredSize(setting) > 0
         THEN NumWorkers = ConfiguredSize(setting)
         ELSE NumWorkers = 16
    /\ setting \in { <<>>, <<"x">>, <<"0">>, <<"-", "1">>, <<"1", "x">>,
                     <<"-">>, <<"+">>, <<"0", "0">> } => NumWorkers = 16
    /\ setting \in { <<"2">>, <<"+", "2">>, <<"0", "2">> }
         => NumWorkers = 2
    /\ setting = <<"1", "2">> => NumWorkers = 12
    /\ NumWorkers >= 1
    /\ supI <= NumWorkers
    /\ supPc = "finished" => supI = NumWorkers

C9_Witness ==
  /\ setting = <<"-", "2">> /\ supPc = "finished" /\ supI = 16
  /\ Len(handled) = 1

\* The identifier of each non-empty row, in input order.
ExpectedIds ==
  LET data == NonEmptyRows
  IN [ i \in 1..Len(data) |->
         IF domainColumn < Len(data[i])
           THEN data[i][domainColumn + 1] ELSE Nil ]

\* C18: the identifiers received from work, in the order of the receives,
\* are at every moment a prefix of the identifiers of the non-empty rows
\* in input order, and all of them once the producer has closed work;
\* the order of the HandleDomain calls may differ.
C18_WorkInInputOrder ==
  LET ids == ExpectedIds
  IN /\ Len(taken) <= Len(ids)
     /\ \A i \in 1..Len(taken) : taken[i] = ids[i]
     /\ prodPc = "done" => Len(taken) = Len(ids)

\* Two different identifiers were received in input order and handled in
\* the other order.
C18_Witness ==
  /\ mainPc = "returned" /\ poolSize >= 2
  /\ Len(taken) = 2 /\ taken[1] # taken[2]
  /\ handled = << [Domain |-> taken[2]], [Domain |-> taken[1]] >>

\* The results the consumer loop has received from results.
Received ==
  Len(handled) + (IF mainPc \in {"handle", "handling"} THEN 1 ELSE 0)
\* The non-empty records Read() has returned.
ReadNonEmpty ==
  Len(SelectSeq(SubSeq(rows, 1, pos), LAMBDA data : Len(data) > 0))

MaxOf(S) == CHOOSE x \in S : \A y \in S : y <= x
\* The levels reported directly on r by Error, Failure, Warning, Success.
Reported(r) == { hist[r].reported[i] : i \in 1..Len(hist[r].reported) }

\* C10 as stated: the Status of every Result is the maximum of Success,
\* the levels reported on it and the current Status of each Result now in
\* its Checks.
C10_StatusIsMaxOfCurrentChildren ==
  \A r \in 1..Len(heap) :
    heap[r].Status =
      MaxOf({Success} \cup Reported(r)
              \cup { heap[c].Status : c \in Children(r) })

\* C10 amended: the Status of every Result is the maximum of Success, the
\* levels reported on it and the Status each Result attached to it had
\* when it was attached, a child since overwritten included.
C10_StatusIsMaxOfAttached ==
  \A r \in 1..Len(heap) :
    heap[r].Status =
      MaxOf({Success} \cup Reported(r) \cup hist[r].attached)

C10_Witness ==
  \E r \in 1..Len(heap) :
    /\ Reported(r) # {}
    /\ \E c \in Children(r) : heap[c].Status > heap[r].Status
    /\ \E c \in 1..Len(heap) : hist[c].parent = r /\ c \notin Children(r)

\* C11: a Result that never had a child attached has the Status that is
\* the maximum of the levels reported on it so far, Success when nothing
\* was reported; the set of levels carries neither order nor repetition.
C11_StatusIsMaxOfReports ==
  \A r \in 1..Len(heap) :
    hist[r].attached = {} =>
      heap[r].Status = MaxOf({Success} \cup Reported(r))

\* A more severe level was reported first, a less severe one after it.
C11_Witness ==
  \E r \in 1..Len(heap) :
    /\ hist[r].attached = {}
    /\ hist[r].reported = << Error, Warning >>
    /\ heap[r].Status = Error

\* C12: no step lowers the Status of any Result.
C12_StatusNeverDecreases ==
  [][\A r \in 1..Len(heap) : heap'[r].Status >= heap[r].Status]_vars

\* A parent at Error after Success was reported on it, whose Error child
\* has been overwritten by a Success child of the same name.
C12_Witness ==
  \E p, c1, c2 \in 1..Len(heap) :
    /\ hist[c1].parent = p /\ c1 \notin Children(p)
    /\ c2 \in Children(p)
    /\ heap[c1].Status = Error /\ heap[c2].Status = Success
    /\ Success \in Reported(p)
    /\ heap[p].Status = Error

\* C13: SetStatus(old, new) is new when new is strictly more severe than
\* old and old otherwise, the maximum of the two on all 16 pairs; it is
\* idempotent, commutative in its result and associative.
C13_SetStatusIsMax ==
  (call.fn = "SetStatus" /\ call.done) =>
    LET a == call.args[1]
        b == call.args[2]
    IN /\ call.ab = (IF b > a THEN b ELSE a)
       /\ call.ab = MaxOf({a, b})
       /\ call.aa = a
       /\ call.ab = call.ba
       /\ call.ab_c = call.a_bc

\* Three different statuses, the most severe in the middle.
C13_Witness ==
  /\ call.fn = "SetStatus" /\ call.done
  /\ call.args = << Failure, Error, Warning >>
  /\ call.ab = Error /\ call.ab_c = Error

\* C14: a call of subcheckSucceeded returns true exactly when the Checks
\* of the Result hold, at the call, a child under the name whose Status is
\* Success; it returns false when no Result of that name was ever attached;
\* and the call changes no Result.
C14_SubcheckSucceeded ==
  [][(call' # call /\ call'.fn = "subcheckSucceeded") =>
       /\ call'.value =
            (\E c \in Children(call'.r) :
               /\ heap[c].Name = call'.checkName
               /\ heap[c].Status = Success)
       /\ (\A c \in 1..Len(heap) :
             ~(hist[c].parent = call'.r /\ heap[c].Name = call'.checkName))
            => call'.value = FALSE
       /\ heap' = heap /\ hist' = hist]_vars

\* Asked about a child that is attached and is not at Success.
C14_Witness ==
  /\ call.fn = "subcheckSucceeded"
  /\ call.checkName \in DOMAIN heap[call.r].Checks
  /\ heap[heap[call.r].Checks[call.checkName]].Status = Failure
  /\ call.value = FALSE

IsPrefix(s, u) == Len(s) <= Len(u) /\ SubSeq(u, 1, Len(s)) = s
PrefixOf(level) ==
  CASE level = Error -> "Error: "
    [] level = Failure -> "Failure: "
    [] level = Warning -> "Warning: "
NotSuccess(level) == level # Success
\* The Error, Failure and Warning calls made on r, in order.
Annotated(r) == SelectSeq(hist[r].reported, NotSuccess)

\* C15 as stated: Messages has one entry per reported event, a Success
\* report included.
C15_OneMessagePerReport ==
  \A r \in 1..Len(heap) : Len(heap[r].Messages) = Len(hist[r].reported)

\* C15 amended: Messages has one entry per Error, Failure or Warning call,
\* in call order and with the prefix of its level, and none for a Success
\* call; and every step keeps the Messages it finds as a prefix of the
\* Messages it leaves.
C15_MessagesAppendOnly ==
  /\ [](\A r \in 1..Len(heap) :
         /\ Len(heap[r].Messages) = Len(Annotated(r))
         /\ \A i \in 1..Len(heap[r].Messages) :
              heap[r].Messages[i][1] = PrefixOf(Annotated(r)[i]))
  /\ [][\A r \in 1..Len(heap) :
          IsPrefix(heap[r].Messages, heap'[r].Messages)]_vars

\* A Warning and then a Success reported on a Result that since took a
\* child: one message.
C15_Witness ==
  \E r \in 1..Len(heap) :
    /\ hist[r].reported = << Warning, Success >>
    /\ heap[r].Messages = << << "Warning: ", "m" >> >>
    /\ Children(r) # {}

(***************************************************************************)
(* Properties of AggregatedScan.                                           *)
(***************************************************************************)
HasMX(r) == r.HostnameResults # {}
HasMode(r, mode) ==
  HasMX(r) /\ r.MTASTSResult # NilResult /\ r.MTASTSResult.Mode = mode
EnforceHit(r) == HasMode(r, "enforce")
TestingHit(r) == HasMode(r, "testing")
DomainsOf(s) == [ i \in 1..Len(s) |-> s[i].Domain ]

\* C16: after any sequence of HandleDomain calls, Attempted is the number
\* of calls, WithMXs the number of results with a hostname result, each
\* mode counter the number of those with a policy of that mode and each
\* list their domains in arrival order; a call with a result without
\* hostname results changes only Attempted, one with hostname results and
\* no policy or another mode changes only Attempted and WithMXs.
C16_HandleDomainCounts ==
  /\ [](/\ agg.Attempted = Len(fed)
        /\ agg.WithMXs = Len(SelectSeq(fed, HasMX))
        /\ agg.MTASTSEnforce = Len(SelectSeq(fed, EnforceHit))
        /\ agg.MTASTSTesting = Len(SelectSeq(fed, TestingHit))
        /\ agg.MTASTSEnforceList = DomainsOf(SelectSeq(fed, EnforceHit))
        /\ agg.MTASTSTestingList = DomainsOf(SelectSeq(fed, TestingHit)))
  /\ [][fed' # fed =>
         LET r == fed'[Len(fed')]
         IN /\ ~HasMX(r) => agg' = [agg EXCEPT !.Attempted = @ + 1]
            /\ (HasMX(r) /\ ~EnforceHit(r) /\ ~TestingHit(r)) =>
                  agg' = [agg EXCEPT !.Attempted = @ + 1,
                                     !.WithMXs = @ + 1]]_vars

\* A result with an enforce policy and no hostname results, then a testing
\* domain, then an enforce domain.
C16_Witness ==
  /\ Len(fed) = 3
  /\ ~HasMX(fed[1]) /\ fed[1].MTASTSResult = [Mode |-> "enforce"]
  /\ agg.Attempted = 3 /\ agg.WithMXs = 2
  /\ agg.MTASTSTestingList = << "b" >>
  /\ agg.MTASTSEnforceList = << "a" >>

C20_ScanInvariants ==
  /\ [](/\ Len(agg.MTASTSEnforceList) = agg.MTASTSEnforce
        /\ Len(agg.MTASTSTestingList) = agg.MTASTSTesting
        /\ agg.MTASTSTesting + agg.MTASTSEnforce <= agg.WithMXs
        /\ agg.WithMXs <= agg.Attempted)
  /\ [][/\ fed' # fed => agg'.Attempted = agg.Attempted + 1
        /\ agg'.Attempted >= agg.Attempted
        /\ agg'.WithMXs >= agg.WithMXs
        /\ agg'.MTASTSTesting >= agg.MTASTSTesting
        /\ agg'.MTASTSEnforce >= agg.MTASTSEnforce
        /\ IsPrefix(agg.MTASTSTestingList, agg'.MTASTSTestingList)
        /\ IsPrefix(agg.MTASTSEnforceList, agg'.MTASTSEnforceList)]_vars

\* Both lists in use, the enforce list with two entries, and a call that
\* counted for Attempted alone.
C20_Witness ==
  /\ agg.Attempted = 3 /\ agg.WithMXs = 2
  /\ agg.MTASTSEnforceList = << "b", "a" >>
  /\ agg.MTASTSTesting = 0

====
